---- MODULE Spec2Model ----
(***************************************************************************)
(* Model of charts.js: the CSV loader, the sort/limit transform, the label *)
(* deriver, the required-attribute check and the per-canvas chart          *)
(* pipelines started on DOMContentLoaded.                                  *)
(*                                                                         *)
(* JavaScript values are tagged records; text is a sequence of one-letter  *)
(* strings so that String(), Number(), parseInt() and localeCompare() are  *)
(* computed and not assumed.                                               *)
(***************************************************************************)
EXTENDS Integers, Sequences, FiniteSets, TLC

VARIABLES args, ret, canvases, tasks, net, charts, log

vars == <<args, ret, canvases, tasks, net, charts, log>>

\* Longest record sequence handed to applySortLimit.
MaxLen == 4

\* Number of canvases on the page.
NTargets == 2

(***************************************************************************)
(* JavaScript values                                                       *)
(***************************************************************************)
Undef == [t |-> "undefined", n |-> 0, s |-> <<>>]
Null == [t |-> "null", n |-> 0, s |-> <<>>]
Num(n) == [t |-> "number", n |-> n, s |-> <<>>]
Str(s) == [t |-> "string", n |-> 0, s |-> s]

\* The characters in collation order (space, punctuation, digits, letters).
Alphabet ==
    <<" ", "-", ",", "(", ")", "0", "1", "2", "3", "4", "5", "6", "7", "8", "9",
      "a", "A", "b", "c", "C", "d", "e", "i", "l", "n", "o", "s", "S", "t", "v", "w", "x", "y">>

DigitChars == <<"0", "1", "2", "3", "4", "5", "6", "7", "8", "9">>

Digits == {DigitChars[i] : i \in 1..Len(DigitChars)}

DigitChar(d) == DigitChars[d + 1]

DigitVal(c) == CHOOSE d \in 0..9 : DigitChar(d) = c

CharRank(c) == CHOOSE i \in 1..Len(Alphabet) : Alphabet[i] = c

\* s.toLowerCase()
LowerChar(c) == CASE c = "A" -> "a" [] c = "C" -> "c" [] c = "S" -> "s" [] OTHER -> c

toLowerCase(s) == [i \in 1..Len(s) |-> LowerChar(s[i])]

\* s.trim()
RECURSIVE TrimLeft(_)
TrimLeft(s) == IF s # <<>> /\ Head(s) = " " THEN TrimLeft(Tail(s)) ELSE s

RECURSIVE TrimRight(_)
TrimRight(s) ==
    IF s # <<>> /\ s[Len(s)] = " " THEN TrimRight(SubSeq(s, 1, Len(s) - 1)) ELSE s

Trim(s) == TrimRight(TrimLeft(s))

\* The value of a run of decimal digits.
RECURSIVE DigitsVal(_)
DigitsVal(s) ==
    IF s = <<>> THEN 0 ELSE 10 * DigitsVal(SubSeq(s, 1, Len(s) - 1)) + DigitVal(s[Len(s)])

AllDigits(s) == s # <<>> /\ \A i \in 1..Len(s) : s[i] \in Digits

\* Number(text): the whole trimmed text must be an optionally signed decimal;
\* empty or blank text is 0; anything else is NaN.
NumberOfText(s) ==
    LET t == Trim(s) IN
    IF t = <<>> THEN [nan |-> FALSE, n |-> 0]
    ELSE IF AllDigits(t) THEN [nan |-> FALSE, n |-> DigitsVal(t)]
    ELSE IF Head(t) = "-" /\ AllDigits(Tail(t)) THEN [nan |-> FALSE, n |-> 0 - DigitsVal(Tail(t))]
    ELSE [nan |-> TRUE, n |-> 0]

\* String(number), for integers.
RECURSIVE NatText(_)
NatText(n) ==
    IF n < 10 THEN <<DigitChar(n)>> ELSE NatText(n \div 10) \o <<DigitChar(n % 10)>>

NumberText(n) == IF n < 0 THEN <<"-">> \o NatText(0 - n) ELSE NatText(n)

\* String(v)
ToText(v) ==
    CASE v.t = "string" -> v.s
      [] v.t = "number" -> NumberText(v.n)
      [] v.t = "null" -> <<"n", "u", "l", "l">>
      [] v.t = "undefined" -> <<"u", "n", "d", "e", "f", "i", "n", "e", "d">>

\* a.localeCompare(b): -1, 0 or 1 by the collation order of the characters.
RECURSIVE localeCompare(_, _)
localeCompare(a, b) ==
    IF a = <<>> THEN (IF b = <<>> THEN 0 ELSE -1)
    ELSE IF b = <<>> THEN 1
    ELSE IF Head(a) = Head(b) THEN localeCompare(Tail(a), Tail(b))
    ELSE IF CharRank(Head(a)) < CharRank(Head(b)) THEN -1 ELSE 1

\* A parsed record: its identity (records are distinct objects) and its cells,
\* a function from column names to values.
\* obj?.[key]; a key the record does not have reads as undefined.
Get(obj, key) == IF key \in DOMAIN obj.cells THEN obj.cells[key] ELSE Undef

NoCells == <<>>

\* The cells of a record with the one column col; undefined stands for a
\* record that lacks the key.
OneCell(col, v) == IF v = Undef THEN NoCells ELSE (col :> v)

\* A data-* attribute that is not set reads as undefined; one that is set is text.
Unset == Undef

Truthy(v) ==
    CASE v.t = "undefined" -> FALSE
      [] v.t = "null" -> FALSE
      [] v.t = "string" -> v.s # <<>>
      [] v.t = "number" -> v.n # 0

\* The data-* attributes of a canvas, by their dataset keys.
csvKey == <<"c", "s", "v">>
labelColKey == <<"l", "a", "b", "e", "l", "C", "o", "l">>
seasonColKey == <<"s", "e", "a", "s", "o", "n", "C", "o", "l">>
yColKey == <<"y", "C", "o", "l">>
winsColKey == <<"w", "i", "n", "s", "C", "o", "l">>
lossesColKey == <<"l", "o", "s", "s", "e", "s", "C", "o", "l">>
sortColKey == <<"s", "o", "r", "t", "C", "o", "l">>
sortDirKey == <<"s", "o", "r", "t", "D", "i", "r">>
limitKey == <<"l", "i", "m", "i", "t">>

\* canvas.dataset[k]
Attr(dataset, k) == IF k \in DOMAIN dataset THEN dataset[k] ELSE Unset

(***************************************************************************)
(* toNumberMaybe                                                           *)
(***************************************************************************)
NoNumber == [isNull |-> TRUE, n |-> 0]

toNumberMaybe(v) ==
    IF v.t = "number" THEN [isNull |-> FALSE, n |-> v.n]
    ELSE IF v.t = "string" /\ Trim(v.s) # <<>> /\ ~NumberOfText(v.s).nan
         THEN [isNull |-> FALSE, n |-> NumberOfText(v.s).n]
    ELSE NoNumber

(***************************************************************************)
(* The comparator handed to out.sort in applySortLimit                     *)
(***************************************************************************)
\* The check without the empty-text case.
IsMissingNoEmptyText(v) == v = Undef \/ v = Null

\* avRaw === undefined || avRaw === null || avRaw === ""
IsMissing(v) == v = Undef \/ v = Null \/ v = Str(<<>>)

\* sortDir === "asc"
IsAscNever(sortDir) == FALSE

IsAscUnlessDesc(sortDir) == sortDir # <<"d", "e", "s", "c">>

IsAsc(sortDir) == sortDir = <<"a", "s", "c">>

Compare(a, b, sortCol, sortDir) ==
    LET avRaw == Get(a, sortCol)
        bvRaw == Get(b, sortCol)
        avNum == toNumberMaybe(avRaw)
        bvNum == toNumberMaybe(bvRaw)
    IN  IF avRaw = bvRaw THEN 0
        ELSE IF IsMissing(avRaw) THEN 1
        ELSE IF IsMissing(bvRaw) THEN -1
        ELSE IF ~avNum.isNull /\ ~bvNum.isNull
             THEN (IF IsAsc(sortDir) THEN avNum.n - bvNum.n ELSE bvNum.n - avNum.n)
        ELSE IF IsAsc(sortDir)
             THEN localeCompare(ToText(avRaw), ToText(bvRaw))
             ELSE localeCompare(ToText(bvRaw), ToText(avRaw))

(***************************************************************************)
(* Array.prototype.sort.  The language fixes the result only for a         *)
(* consistent comparator (and then the sort is stable); otherwise the      *)
(* order is whatever the engine's algorithm produces.  Three engines'      *)
(* algorithms are modelled and the engine is an input.                     *)
(***************************************************************************)
Engines == {"timsort", "mergesort", "insertionsort"}

Reverse(s) == [i \in 1..Len(s) |-> s[Len(s) + 1 - i]]

InsertAt(s, i, x) == SubSeq(s, 1, i - 1) \o <<x>> \o SubSeq(s, i, Len(s))

\* TimSort on fewer than 64 elements: one run, found by CountAndMakeRun and
\* extended to the whole array by binary insertion.
RECURSIVE RunEnd(_, _, _, _, _)
RunEnd(arr, idx, descending, sortCol, sortDir) ==
    IF idx > Len(arr) THEN idx
    ELSE LET order == Compare(arr[idx], arr[idx - 1], sortCol, sortDir) IN
         IF (descending /\ order >= 0) \/ (~descending /\ order < 0) THEN idx
         ELSE RunEnd(arr, idx + 1, descending, sortCol, sortDir)

RECURSIVE BinarySearch(_, _, _, _, _, _)
BinarySearch(arr, pivot, left, right, sortCol, sortDir) ==
    IF left >= right THEN left
    ELSE LET mid == left + ((right - left) \div 2) IN
         IF Compare(pivot, arr[mid], sortCol, sortDir) < 0
         THEN BinarySearch(arr, pivot, left, mid, sortCol, sortDir)
         ELSE BinarySearch(arr, pivot, mid + 1, right, sortCol, sortDir)

RECURSIVE BinaryInsertionSort(_, _, _, _)
BinaryInsertionSort(arr, start, sortCol, sortDir) ==
    IF start > Len(arr) THEN arr
    ELSE LET pivot == arr[start]
             at == BinarySearch(arr, pivot, 1, start, sortCol, sortDir)
             moved == InsertAt(SubSeq(arr, 1, start - 1), at, pivot)
                          \o SubSeq(arr, start + 1, Len(arr))
         IN  BinaryInsertionSort(moved, start + 1, sortCol, sortDir)

TimSort(arr, sortCol, sortDir) ==
    IF Len(arr) < 2 THEN arr
    ELSE LET descending == Compare(arr[2], arr[1], sortCol, sortDir) < 0
             stop == RunEnd(arr, 3, descending, sortCol, sortDir)
             run == SubSeq(arr, 1, stop - 1)
             made == (IF descending THEN Reverse(run) ELSE run)
                         \o SubSeq(arr, stop, Len(arr))
         IN  BinaryInsertionSort(made, stop, sortCol, sortDir)

\* Bottom-up merge sort: the right element is taken only when it compares
\* strictly below the left one.
RECURSIVE Merge(_, _, _, _)
Merge(left, right, sortCol, sortDir) ==
    IF right # <<>> /\ (left = <<>> \/ Compare(right[1], left[1], sortCol, sortDir) < 0)
    THEN <<right[1]>> \o Merge(left, Tail(right), sortCol, sortDir)
    ELSE IF left # <<>> THEN <<left[1]>> \o Merge(Tail(left), right, sortCol, sortDir)
    ELSE <<>>

Min(a, b) == IF a < b THEN a ELSE b

RECURSIVE MergePass(_, _, _, _, _)
MergePass(src, srcIndex, width, sortCol, sortDir) ==
    IF srcIndex > Len(src) THEN <<>>
    ELSE LET leftEnd == Min(srcIndex + width - 1, Len(src))
             rightEnd == Min(srcIndex + 2 * width - 1, Len(src))
         IN  Merge(SubSeq(src, srcIndex, leftEnd), SubSeq(src, leftEnd + 1, rightEnd),
                   sortCol, sortDir)
                 \o MergePass(src, srcIndex + 2 * width, width, sortCol, sortDir)

RECURSIVE MergeSort(_, _, _, _)
MergeSort(src, width, sortCol, sortDir) ==
    IF width >= Len(src) THEN src
    ELSE MergeSort(MergePass(src, 1, width, sortCol, sortDir), 2 * width, sortCol, sortDir)

\* Insertion sort: an item moves left past every element that compares above it.
RECURSIVE InsertFromRight(_, _, _, _, _)
InsertFromRight(sorted, j, item, sortCol, sortDir) ==
    IF j >= 1 /\ Compare(sorted[j], item, sortCol, sortDir) > 0
    THEN InsertFromRight(sorted, j - 1, item, sortCol, sortDir)
    ELSE InsertAt(sorted, j + 1, item)

RECURSIVE InsertionSort(_, _, _, _)
InsertionSort(arr, i, sortCol, sortDir) ==
    IF i > Len(arr) THEN arr
    ELSE InsertionSort(
             InsertFromRight(SubSeq(arr, 1, i - 1), i - 1, arr[i], sortCol, sortDir)
                 \o SubSeq(arr, i + 1, Len(arr)),
             i + 1, sortCol, sortDir)

\* out.sort((a, b) => ...)
Sort(arr, engine, sortCol, sortDir) ==
    CASE engine = "timsort" -> TimSort(arr, sortCol, sortDir)
      [] engine = "mergesort" -> MergeSort(arr, 1, sortCol, sortDir)
      [] engine = "insertionsort" -> InsertionSort(arr, 2, sortCol, sortDir)

(***************************************************************************)
(* applySortLimit                                                          *)
(***************************************************************************)
\* The longest prefix of decimal digits.
RECURSIVE DigitPrefix(_)
DigitPrefix(s) ==
    IF s # <<>> /\ Head(s) \in Digits THEN <<Head(s)>> \o DigitPrefix(Tail(s)) ELSE <<>>

\* parseInt(text, 10): leading blanks, an optional sign, then the digits up
\* to the first other character; NaN when there is no digit.
parseInt(s) ==
    LET t == TrimLeft(s)
        neg == t # <<>> /\ Head(t) = "-"
        d == DigitPrefix(IF neg THEN Tail(t) ELSE t)
    IN  IF d = <<>> THEN [nan |-> TRUE, n |-> 0]
        ELSE [nan |-> FALSE, n |-> IF neg THEN 0 - DigitsVal(d) ELSE DigitsVal(d)]

\* a || b on attribute values
OrElse(a, b) == IF Truthy(a) THEN a ELSE b

\* arr.slice(): a new array with the same elements.
SliceShared(arr) == [elems |-> arr, isNew |-> FALSE]

Slice(arr) == [elems |-> arr, isNew |-> TRUE]

\* if (limit && limit > 0) out = out.slice(0, limit)
TruncateOneShort(sorted, limit) ==
    IF ~limit.nan /\ limit.n # 0 /\ limit.n > 0
    THEN [elems |-> SubSeq(sorted, 1, Min(limit.n - 1, Len(sorted))), isNew |-> TRUE]
    ELSE [elems |-> sorted, isNew |-> FALSE]

Truncate(sorted, limit) ==
    IF ~limit.nan /\ limit.n # 0 /\ limit.n > 0
    THEN [elems |-> SubSeq(sorted, 1, Min(limit.n, Len(sorted))), isNew |-> TRUE]
    ELSE [elems |-> sorted, isNew |-> FALSE]

\* The result: the returned array, whether it is the caller's array itself,
\* and the caller's array as the call leaves it.
applySortLimit(rows, dataset, engine) ==
    LET sortCol == Attr(dataset, sortColKey)
        sortDir == toLowerCase(OrElse(Attr(dataset, sortDirKey), Str(<<"d", "e", "s", "c">>)).s)
        limit == parseInt(OrElse(Attr(dataset, limitKey), Str(<<"0">>)).s)
        copy == Slice(rows)
        sorted == IF Truthy(sortCol) THEN Sort(copy.elems, engine, sortCol.s, sortDir)
                  ELSE copy.elems
        cut == Truncate(sorted, limit)
    IN  [out |-> cut.elems,
         sameArray |-> ~cut.isNew /\ ~copy.isNew,
         rows |-> IF copy.isNew THEN rows ELSE sorted]

(***************************************************************************)
(* labelTeamSeason                                                         *)
(***************************************************************************)
\* team !== undefined && team !== null ? String(team) : ""
TeamTextUnguarded(team) == ToText(team)

TeamText(team) == IF team # Undef /\ team # Null THEN ToText(team) ELSE <<>>

labelTeamSeason(row, labelCol, seasonCol) ==
    LET team == Get(row, labelCol.s)
        season == IF Truthy(seasonCol) THEN Get(row, seasonCol.s) ELSE Null
        teamText == TeamText(team)
        seasonText == IF season # Null /\ season # Undef /\ season # Str(<<>>)
                      THEN ToText(season) ELSE <<>>
    IN  IF seasonText # <<>> THEN teamText \o <<" ", "(">> \o seasonText \o <<")">>
        ELSE teamText

(***************************************************************************)
(* Errors, and ensureRequired                                              *)
(***************************************************************************)
NoError == [name |-> "none", literal |-> "", detail |-> <<>>]

\* new Error(`${literal}${detail}`)
Error(literal, detail) == [name |-> "Error", literal |-> literal, detail |-> detail]

UpperCase == {"A", "C", "S"}

\* k.replace(/[A-Z]/g, m => "-" + m.toLowerCase()), after "data-"
RECURSIVE Kebab(_)
Kebab(k) ==
    IF k = <<>> THEN <<>>
    ELSE (IF Head(k) \in UpperCase THEN <<"-", LowerChar(Head(k))>> ELSE <<Head(k)>>)
             \o Kebab(Tail(k))

AttributeName(k) == <<"d", "a", "t", "a", "-">> \o Kebab(k)

\* names.join(", ")
RECURSIVE Join(_)
Join(names) ==
    IF names = <<>> THEN <<>>
    ELSE IF Len(names) = 1 THEN names[1]
    ELSE names[1] \o <<",", " ">> \o Join(Tail(names))

\* !canvas.dataset[k] || canvas.dataset[k].trim?.() === ""
IsMissingAttr(dataset, k) == ~Truthy(Attr(dataset, k)) \/ Trim(Attr(dataset, k).s) = <<>>

\* keys.filter(k => ...)
MissingKeysFirstOnly(dataset, keys) ==
    LET all == SelectSeq(keys, LAMBDA k : IsMissingAttr(dataset, k))
    IN  IF all = <<>> THEN <<>> ELSE <<all[1]>>

MissingKeys(dataset, keys) == SelectSeq(keys, LAMBDA k : IsMissingAttr(dataset, k))

ensureRequiredSkipped(dataset, keys) == NoError

\* The error thrown, or NoError when the function returns.
ensureRequired(dataset, keys) ==
    LET missing == MissingKeys(dataset, keys) IN
    IF Len(missing) # 0
    THEN Error("Canvas is missing required data-* attributes: ",
               Join([i \in 1..Len(missing) |-> AttributeName(missing[i])]))
    ELSE NoError

\* The keys each builder requires.
RequiredKeys(kind) ==
    CASE kind = "wins-losses" -> <<csvKey, labelColKey, winsColKey, lossesColKey>>
      [] kind = "bar" -> <<csvKey, labelColKey, yColKey>>
      [] kind = "simple-bar" -> <<csvKey, labelColKey, yColKey>>
      [] kind = "model-comparison" -> <<csvKey>>
      [] kind = "roc-curves" -> <<csvKey>>
      [] kind = "horizontal-bar" -> <<csvKey, labelColKey, yColKey>>

Kinds ==
    <<"wins-losses", "bar", "simple-bar", "model-comparison", "roc-curves", "horizontal-bar">>

(***************************************************************************)
(* loadCsv: the code before the fetch, after the response, after the text  *)
(***************************************************************************)
\* if (!url) throw new Error(...); otherwise fetch(url) is issued.
loadCsvEnter(url) ==
    IF ~Truthy(url) THEN Error("Missing data-csv attribute on canvas.", <<>>) ELSE NoError

\* res.ok: the status is in the range 200-299.
OkAlways(status) == TRUE

Ok(status) == status >= 200 /\ status <= 299

loadCsvResponseIgnored(url, status) == NoError

\* if (!res.ok) throw new Error(`CSV not found: ${url} (${res.status})`)
loadCsvResponse(url, status) ==
    IF ~Ok(status)
    THEN Error("CSV not found: ", ToText(url) \o <<" ", "(">> \o NumberText(status) \o <<")">>)
    ELSE NoError

\* What Papa.parse returns as parsed.data: an array of records, or not an array.
NotAnArray == [isArray |-> FALSE, items |-> <<>>]

ArrayOf(items) == [isArray |-> TRUE, items |-> items]

\* r && typeof r === "object" && Object.keys(r).length > 0
KeepsRow(r) == DOMAIN r.cells # {}

\* Array.isArray(parsed.data) ? parsed.data : [], then the filter
loadCsvRows(data) ==
    IF data.isArray THEN SelectSeq(data.items, LAMBDA r : KeepsRow(r)) ELSE <<>>

(***************************************************************************)
(* The chart builders                                                      *)
(***************************************************************************)
\* canvas.getContext && canvas.getContext("2d"), then ctx || null
get2dContext(canvas) == IF canvas.context = "2d" THEN "2d" ELSE "null"

\* if (!ctx) return
NoContextNever(ctx) == FALSE

NoContext(ctx) == ctx = "null"

\* rows.map(r => r[col])
Column(rows, col) == [i \in 1..Len(rows) |-> Get(rows[i], col)]

Metrics == <<<<"ACCURACY">>, <<"PRECISION">>, <<"RECALL">>, <<"F1_SCORE">>, <<"ROC_AUC">>>>

MetricLabels ==
    <<Str(<<"Accuracy">>), Str(<<"Precision">>), Str(<<"Recall">>), Str(<<"F1-Score">>),
      Str(<<"ROC-AUC">>)>>

TprCols == <<<<"TPR_LR">>, <<"TPR_RF">>, <<"TPR_XGB">>>>

\* Which builders pass the records through applySortLimit.
Sorts(kind) == kind \in {"wins-losses", "bar", "simple-bar", "horizontal-bar"}

\* const rows = applySortLimit(rowsRaw, canvas), or the loaded rows as they are.
BuilderRows(canvas, rowsRaw, engine) ==
    IF Sorts(canvas.kind) THEN applySortLimit(rowsRaw, canvas.dataset, engine).out ELSE rowsRaw

\* The records, labels and data sequences a builder hands to new Chart.
ChartOf(canvas, rows) ==
    LET ds == canvas.dataset
        kind == canvas.kind
        labelC == Attr(ds, labelColKey)
        seasonC == OrElse(OrElse(Attr(ds, seasonColKey), Str(<<>>)), Null)
        teamSeason == [i \in 1..Len(rows) |-> Str(labelTeamSeason(rows[i], labelC, seasonC))]
    IN  CASE kind = "wins-losses" ->
                 [records |-> rows, labels |-> teamSeason,
                  datasets |-> <<Column(rows, Attr(ds, winsColKey).s),
                                 Column(rows, Attr(ds, lossesColKey).s)>>]
          [] kind = "bar" ->
                 [records |-> rows, labels |-> teamSeason,
                  datasets |-> <<Column(rows, Attr(ds, yColKey).s)>>]
          [] kind \in {"simple-bar", "horizontal-bar"} ->
                 [records |-> rows, labels |-> Column(rows, labelC.s),
                  datasets |-> <<Column(rows, Attr(ds, yColKey).s)>>]
          [] kind = "model-comparison" ->
                 [records |-> rows, labels |-> MetricLabels,
                  datasets |-> [i \in 1..Len(rows) |->
                                   [m \in 1..Len(Metrics) |-> Get(rows[i], Metrics[m])]]]
          [] kind = "roc-curves" ->
                 [records |-> rows, labels |-> <<>>,
                  datasets |-> [c \in 1..Len(TprCols) |->
                                   [i \in 1..Len(rows) |->
                                       [x |-> Get(rows[i], <<"FPR">>),
                                        y |-> Get(rows[i], TprCols[c])]]]
                               \o <<<<[x |-> Num(0), y |-> Num(0)], [x |-> Num(1), y |-> Num(1)]>>>>]

\* The rows are prepared once, the chart is made of them.
ChartData(canvas, rowsRaw, engine) ==
    CHOOSE chart \in {ChartOf(canvas, rows) : rows \in {BuilderRows(canvas, rowsRaw, engine)}} :
        TRUE

\* The builder from the arrival of the rows to its end: the Chart
\* constructor calls it makes (none without a 2D context).
BuilderFinish(canvas, rowsRaw, engine) ==
    IF NoContext(get2dContext(canvas)) THEN <<>> ELSE <<ChartData(canvas, rowsRaw, engine)>>

\* The builder up to its first await: ensureRequired, then loadCsv up to the
\* fetch.
BuilderStart(canvas) ==
    LET missing == ensureRequired(canvas.dataset, RequiredKeys(canvas.kind))
        url == Attr(canvas.dataset, csvKey)
        noUrl == loadCsvEnter(url)
    IN  IF missing # NoError THEN [at |-> "rejected", error |-> missing, fetches |-> <<>>]
        ELSE IF noUrl # NoError THEN [at |-> "rejected", error |-> noUrl, fetches |-> <<>>]
        ELSE [at |-> "fetching", error |-> NoError, fetches |-> <<url>>]

(***************************************************************************)
(* Calls of applySortLimit on every short record sequence                  *)
(***************************************************************************)
\* What a parsed cell of the sort column can hold: a missing key, an empty
\* cell, empty text, numbers and other text.
SortValues == {Undef, Null, Str(<<>>), Num(9), Num(10), Str(<<"1", "a">>)}

SortColumn == <<"V">>

\* The record sequences of at most n records with the sort column drawn from
\* vals; a record's id is its place in the input.
RowSeqs(vals, n) ==
    UNION {{[i \in 1..k |-> [id |-> i, cells |-> OneCell(SortColumn, f[i])]] :
              f \in [1..k -> vals]} : k \in 0..n}

NoCanvases == <<>>

NotCalled == [done |-> FALSE]

\* No page is loaded while a function is called on its own.
PageIdle ==
    /\ canvases = NoCanvases
    /\ tasks = <<>>
    /\ net = <<>>
    /\ charts = <<>>
    /\ log = <<>>

pageVars == <<canvases, tasks, net, charts, log>>

\* A dataset with the three attributes applySortLimit reads.
SortDataset(col, dir, lim) == (sortColKey :> col) @@ (sortDirKey :> dir) @@ (limitKey :> lim)

SortDatasets ==
    {SortDataset(Str(SortColumn), dir, Unset) :
        dir \in {Str(<<"a", "s", "c">>), Str(<<"d", "e", "s", "c">>)}}

InitSort ==
    /\ args \in [fn : {"applySortLimit"}, rows : RowSeqs(SortValues, MaxLen),
                  dataset : SortDatasets, engine : Engines]
    /\ ret = NotCalled
    /\ PageIdle

CallApplySortLimit ==
    /\ args.fn = "applySortLimit"
    /\ ~ret.done
    /\ ret' = [done |-> TRUE] @@ applySortLimit(args.rows, args.dataset, args.engine)
    /\ UNCHANGED <<args, pageVars>>

NextSort == CallApplySortLimit

SpecSort == InitSort /\ [][NextSort]_vars

\* The limit attribute: not set, empty, zero, negative, whole numbers, text
\* without a digit, and text that starts with a digit.
LimitTexts ==
    {Unset, Str(<<>>), Str(<<"0">>), Str(<<"-", "1">>), Str(<<"2">>), Str(<<"3">>),
     Str(<<"a", "b", "c">>), Str(<<"2", "a">>)}

LimitValues == {Null, Num(9), Num(10)}

LimitDatasets ==
    {SortDataset(col, dir, lim) :
        col \in {Unset, Str(SortColumn)},
        dir \in {Str(<<"a", "s", "c">>), Str(<<"d", "e", "s", "c">>)},
        lim \in LimitTexts}

InitLimit ==
    /\ args \in [fn : {"applySortLimit"}, rows : RowSeqs(LimitValues, MaxLen),
                  dataset : LimitDatasets, engine : Engines]
    /\ ret = NotCalled
    /\ PageIdle

SpecLimit == InitLimit /\ [][NextSort]_vars

(***************************************************************************)
(* Calls of labelTeamSeason and of ensureRequired                          *)
(***************************************************************************)
LabelColumn == <<"T">>

SeasonColumn == <<"S">>

\* A column the records do not have.
OtherColumn == <<"X">>

LabelValues == {Undef, Null, Str(<<>>), Num(0), Num(9), Str(<<"a">>), Str(<<" ">>)}

LabelRows ==
    {[id |-> 1, cells |-> OneCell(LabelColumn, a) @@ OneCell(SeasonColumn, b)] :
        a \in LabelValues, b \in LabelValues}

InitLabel ==
    /\ args \in [fn : {"labelTeamSeason"}, row : LabelRows, labelCol : {Str(LabelColumn)},
                  seasonCol : {Undef, Null, Str(<<>>), Str(SeasonColumn), Str(OtherColumn)}]
    /\ ret = NotCalled
    /\ PageIdle

CallLabelTeamSeason ==
    /\ args.fn = "labelTeamSeason"
    /\ ~ret.done
    /\ ret' = [done |-> TRUE, label |-> labelTeamSeason(args.row, args.labelCol, args.seasonCol)]
    /\ UNCHANGED <<args, pageVars>>

NextLabel == CallLabelTeamSeason

SpecLabel == InitLabel /\ [][NextLabel]_vars

\* An attribute that is not set, empty, blank, or set.
AttrTexts == {Unset, Str(<<>>), Str(<<" ">>), Str(<<"a">>)}

CheckedKeys == {csvKey, labelColKey, yColKey, winsColKey, lossesColKey}

InitRequired ==
    /\ args \in [fn : {"ensureRequired"}, dataset : [CheckedKeys -> AttrTexts],
                  keys : {RequiredKeys(Kinds[i]) : i \in 1..Len(Kinds)}]
    /\ ret = NotCalled
    /\ PageIdle

CallEnsureRequired ==
    /\ args.fn = "ensureRequired"
    /\ ~ret.done
    /\ ret' = [done |-> TRUE, error |-> ensureRequired(args.dataset, args.keys)]
    /\ UNCHANGED <<args, pageVars>>

NextRequired == CallEnsureRequired

SpecRequired == InitRequired /\ [][NextRequired]_vars

(***************************************************************************)
(* Calls of loadCsv on its own                                             *)
(***************************************************************************)
LoadUrls == {Undef, Null, Str(<<>>), Str(<<" ">>), Str(<<"a">>), Str(<<"b">>)}

LoadStatuses == {200, 204, 299, 300, 404, 500}

\* fetch rejects when the network fails.
FetchFailed == [name |-> "TypeError", literal |-> "Failed to fetch", detail |-> <<>>]

ItemCells == {NoCells, <<"T">> :> Str(<<"a">>), <<"T">> :> Num(9)}

LoadData ==
    {NotAnArray} \cup
    UNION {{ArrayOf([i \in 1..k |-> [id |-> i, cells |-> f[i]]]) : f \in [1..k -> ItemCells]} :
              k \in 0..2}

InitLoad ==
    /\ args \in [fn : {"loadCsv"}, url : LoadUrls]
    /\ ret = [done |-> FALSE, at |-> "start", fetches |-> <<>>, status |-> 0,
              error |-> NoError, rows |-> <<>>, parses |-> 0]
    /\ PageIdle

LoadCsvCall ==
    /\ args.fn = "loadCsv"
    /\ ret.at = "start"
    /\ LET e == loadCsvEnter(args.url) IN
       ret' = IF e # NoError
              THEN [ret EXCEPT !.done = TRUE, !.at = "rejected", !.error = e]
              ELSE [ret EXCEPT !.at = "fetching", !.fetches = Append(@, args.url)]
    /\ UNCHANGED <<args, pageVars>>

LoadCsvGetsResponse ==
    /\ args.fn = "loadCsv"
    /\ ret.at = "fetching"
    /\ \E status \in LoadStatuses :
           LET e == loadCsvResponse(args.url, status) IN
           ret' = IF e # NoError
                  THEN [ret EXCEPT !.done = TRUE, !.at = "rejected", !.error = e,
                                   !.status = status]
                  ELSE [ret EXCEPT !.at = "reading", !.status = status]
    /\ UNCHANGED <<args, pageVars>>

LoadCsvFetchFails ==
    /\ args.fn = "loadCsv"
    /\ ret.at = "fetching"
    /\ ret' = [ret EXCEPT !.done = TRUE, !.at = "rejected", !.error = FetchFailed]
    /\ UNCHANGED <<args, pageVars>>

LoadCsvGetsText ==
    /\ args.fn = "loadCsv"
    /\ ret.at = "reading"
    /\ \E data \in LoadData :
           ret' = [ret EXCEPT !.done = TRUE, !.at = "resolved", !.rows = loadCsvRows(data),
                              !.parses = @ + 1]
    /\ UNCHANGED <<args, pageVars>>

NextLoad == LoadCsvCall \/ LoadCsvGetsResponse \/ LoadCsvFetchFails \/ LoadCsvGetsText

SpecLoad == InitLoad /\ [][NextLoad]_vars

(***************************************************************************)
(* The page: the DOMContentLoaded handler and the tasks it starts          *)
(***************************************************************************)
Targets == 1..NTargets

Dataset(url, label, season, wins, losses, y, sortBy, dir, lim) ==
    (csvKey :> url) @@ (labelColKey :> label) @@ (seasonColKey :> season)
        @@ (winsColKey :> wins) @@ (lossesColKey :> losses) @@ (yColKey :> y)
        @@ (sortColKey :> sortBy) @@ (sortDirKey :> dir) @@ (limitKey :> lim)

\* The canvases a page is made of: one per builder, and ones with missing or
\* blank required attributes or without a usable 2D context.
PageCanvases ==
    { [kind |-> "wins-losses", context |-> "2d",
       dataset |-> Dataset(Str(<<"a">>), Str(<<"T">>), Str(<<"S">>), Str(<<"W">>), Str(<<"L">>),
                           Unset, Str(<<"W">>), Unset, Str(<<"2">>))],
      [kind |-> "bar", context |-> "2d",
       dataset |-> Dataset(Str(<<"a">>), Unset, Unset, Unset, Unset, Str(<<>>), Unset, Unset, Unset)],
      [kind |-> "bar", context |-> "null",
       dataset |-> Dataset(Str(<<"a">>), Str(<<"T">>), Unset, Unset, Unset, Str(<<"Y">>),
                           Unset, Unset, Unset)],
      [kind |-> "simple-bar", context |-> "2d",
       dataset |-> Dataset(Str(<<" ">>), Str(<<"T">>), Unset, Unset, Unset, Str(<<"Y">>),
                           Unset, Unset, Unset)],
      [kind |-> "model-comparison", context |-> "2d",
       dataset |-> Dataset(Str(<<"b">>), Unset, Unset, Unset, Unset, Unset, Unset, Unset,
                           Str(<<"2">>))],
      [kind |-> "roc-curves", context |-> "no getContext",
       dataset |-> Dataset(Str(<<"b">>), Unset, Unset, Unset, Unset, Unset, Unset, Unset, Unset)],
      [kind |-> "horizontal-bar", context |-> "2d",
       dataset |-> Dataset(Str(<<"a">>), Str(<<"T">>), Unset, Unset, Unset, Str(<<"Y">>),
                           Str(<<"Y">>), Str(<<"a", "s", "c">>), Unset)] }

PageStatuses == {200, 404}

PageRows ==
    << [id |-> 1, cells |-> (<<"T">> :> Str(<<"a">>)) @@ (<<"S">> :> Str(<<"9">>))
                            @@ (<<"W">> :> Num(9)) @@ (<<"L">> :> Num(10)) @@ (<<"Y">> :> Num(10))],
       [id |-> 2, cells |-> NoCells],
       [id |-> 3, cells |-> (<<"T">> :> Str(<<"b">>)) @@ (<<"W">> :> Num(10))
                            @@ (<<"L">> :> Num(9)) @@ (<<"Y">> :> Str(<<"1", "a">>))],
       [id |-> 4, cells |-> (<<"T">> :> Null) @@ (<<"S">> :> Str(<<>>))
                            @@ (<<"W">> :> Num(10)) @@ (<<"L">> :> Null) @@ (<<"Y">> :> Num(9))] >>

PageData == {NotAnArray, ArrayOf(PageRows)}

Idle == [at |-> "idle", error |-> NoError]

Init ==
    /\ args \in [fn : {"page"}, engine : Engines]
    /\ ret = NotCalled
    /\ canvases \in [Targets -> PageCanvases]
    /\ tasks = [t \in Targets |-> Idle]
    /\ net = [t \in Targets |-> [fetches |-> <<>>, status |-> 0, data |-> NotAnArray]]
    /\ charts = [t \in Targets |-> <<>>]
    /\ log = <<>>

\* The order in which the handler calls the builders: one querySelectorAll
\* per kind, document order within a kind.
RECURSIVE LaunchOrderFrom(_)
LaunchOrderFrom(k) ==
    IF k > Len(Kinds) THEN <<>>
    ELSE SelectSeq([t \in Targets |-> t], LAMBDA t : canvases[t].kind = Kinds[k])
             \o LaunchOrderFrom(k + 1)

LaunchOrder == LaunchOrderFrom(1)

\* The builders are async functions: what one throws rejects its promise and
\* never leaves the call.
ThrowLeavesCall(started) == started.at = "rejected"

ThrowLeavesBuilder(started) == FALSE

RECURSIVE LaunchAll(_, _)
LaunchAll(order, started) ==
    IF order = <<>> THEN started
    ELSE LET s == BuilderStart(canvases[Head(order)])
             now == [started EXCEPT ![Head(order)] = s]
         IN  IF ThrowLeavesBuilder(s) THEN now ELSE LaunchAll(Tail(order), now)

DOMContentLoaded ==
    /\ \A t \in Targets : tasks[t].at = "idle"
    /\ LET s == LaunchAll(LaunchOrder,
                          [t \in Targets |-> [at |-> "idle", error |-> NoError, fetches |-> <<>>]])
       IN  /\ tasks' = [t \in Targets |-> [at |-> s[t].at, error |-> s[t].error]]
           /\ net' = [t \in Targets |-> [fetches |-> s[t].fetches, status |-> 0, data |-> NotAnArray]]
    /\ UNCHANGED <<args, ret, canvases, charts, log>>

\* The response of target t's fetch arrives.
Response(t) ==
    /\ tasks[t].at = "fetching"
    /\ \E status \in PageStatuses :
           LET e == loadCsvResponse(Attr(canvases[t].dataset, csvKey), status) IN
           /\ tasks' = [tasks EXCEPT ![t] = IF e # NoError THEN [at |-> "rejected", error |-> e]
                                            ELSE [at |-> "reading", error |-> NoError]]
           /\ net' = [net EXCEPT ![t].status = status]
    /\ UNCHANGED <<args, ret, canvases, charts, log>>

\* Target t's fetch fails.
NetworkError(t) ==
    /\ tasks[t].at = "fetching"
    /\ tasks' = [tasks EXCEPT ![t] = [at |-> "rejected", error |-> FetchFailed]]
    /\ UNCHANGED <<args, ret, canvases, net, charts, log>>

\* The text of target t's response arrives: loadCsv parses and returns, and
\* the builder runs to its end.
Text(t) ==
    /\ tasks[t].at = "reading"
    /\ \E data \in PageData :
           /\ charts' = [charts EXCEPT ![t] =
                            @ \o BuilderFinish(canvases[t], loadCsvRows(data), args.engine)]
           /\ net' = [net EXCEPT ![t].data = data]
    /\ tasks' = [tasks EXCEPT ![t] = [at |-> "done", error |-> NoError]]
    /\ UNCHANGED <<args, ret, canvases, log>>

\* The .catch callback of target t's builder: two console.error calls.
Catch(t) ==
    /\ tasks[t].at = "rejected"
    /\ log' = log \o << [target |-> t, text |-> canvases[t].kind \o " chart failed:",
                         value |-> tasks[t].error],
                        [target |-> t, text |-> "canvas dataset:",
                         value |-> canvases[t].dataset] >>
    /\ tasks' = [tasks EXCEPT ![t] = [at |-> "failed", error |-> tasks[t].error]]
    /\ UNCHANGED <<args, ret, canvases, net, charts>>

Next ==
    \/ DOMContentLoaded
    \/ \E t \in Targets : Response(t) \/ NetworkError(t) \/ Text(t) \/ Catch(t)

Spec == Init /\ [][Next]_vars

(***************************************************************************)
(* Properties of applySortLimit                                            *)
(***************************************************************************)
Called(fn) == args.fn = fn /\ ret.done

SortCell(row) == Get(row, SortColumn)

\* A sort value that is absent or empty: a missing key, null or empty text.
AbsentValue(v) == v.t = "undefined" \/ v.t = "null" \/ (v.t = "string" /\ v.s = <<>>)

Ascending == Attr(args.dataset, sortDirKey) = Str(<<"a", "s", "c">>)

Descending == Attr(args.dataset, sortDirKey) = Str(<<"d", "e", "s", "c">>)

NumericColumn(rows) ==
    \A i \in 1..Len(rows) : AbsentValue(SortCell(rows[i])) \/ SortCell(rows[i]).t = "number"

PresentRows(rows) == SelectSeq(rows, LAMBDA r : ~AbsentValue(SortCell(r)))

SameRecords(a, b) ==
    /\ Len(a) = Len(b)
    /\ {a[i] : i \in 1..Len(a)} = {b[i] : i \in 1..Len(b)}

\* C1: on a numeric sort column the output holds the input's records, and the
\* records with a present sort value are in non-decreasing order of it when
\* sortDir is asc and in non-increasing order when it is desc.
C1_NumericOrder ==
    (Called("applySortLimit") /\ Truthy(Attr(args.dataset, sortColKey)) /\ NumericColumn(args.rows)) =>
        LET p == PresentRows(ret.out) IN
        /\ Ascending \/ Descending
        /\ SameRecords(ret.out, args.rows)
        /\ \A i \in 1..(Len(p) - 1) :
               IF Ascending THEN SortCell(p[i]).n <= SortCell(p[i + 1]).n
               ELSE SortCell(p[i]).n >= SortCell(p[i + 1]).n

C1_Witness ==
    /\ Called("applySortLimit")
    /\ NumericColumn(args.rows)
    /\ Descending
    /\ Len(PresentRows(args.rows)) >= 3
    /\ Len(PresentRows(args.rows)) < Len(args.rows)
    /\ ret.out # args.rows
    /\ \E i, j \in 1..Len(ret.out) :
           i < j /\ SortCell(ret.out[i]) = Num(10) /\ SortCell(ret.out[j]) = Num(9)

\* C2: with a sort column and no limit, every record whose sort value is
\* absent or empty comes after every record whose sort value is present, in
\* either direction.
C2_AbsentLast ==
    (Called("applySortLimit") /\ Truthy(Attr(args.dataset, sortColKey)) /\ Attr(args.dataset, limitKey) = Unset) =>
        /\ SameRecords(ret.out, args.rows)
        /\ \A i, j \in 1..Len(ret.out) :
               (AbsentValue(SortCell(ret.out[i])) /\ ~AbsentValue(SortCell(ret.out[j]))) => j < i

C2_Witness ==
    /\ Called("applySortLimit")
    /\ Attr(args.dataset, limitKey) = Unset
    /\ Len(args.rows) >= 4
    /\ SortCell(args.rows[1]) = Str(<<>>)
    /\ SortCell(args.rows[2]) = Str(<<"1", "a">>)
    /\ SortCell(args.rows[3]) = Undef
    /\ SortCell(args.rows[4]) = Num(9)
    /\ AbsentValue(SortCell(ret.out[3]))
    /\ AbsentValue(SortCell(ret.out[4]))

\* C3: the sort is stable: two records with equal sort values keep their
\* input order in the output, in either direction.
C3_Stable ==
    (Called("applySortLimit") /\ Truthy(Attr(args.dataset, sortColKey))) =>
        \A i, j \in 1..Len(ret.out) :
            (i < j /\ SortCell(ret.out[i]) = SortCell(ret.out[j]))
                => ret.out[i].id < ret.out[j].id

\* The sequence the call would return with no limit.
FullySorted ==
    applySortLimit(args.rows, [args.dataset EXCEPT ![limitKey] = Unset], args.engine).out

\* C4 as stated: a limit that is a number N with 0 < N < L gives the first N
\* records of the fully sorted sequence; a limit that is 0, negative, not set
\* or not a number gives all L records.
C4_LimitAsStated ==
    Called("applySortLimit") =>
        LET text == Attr(args.dataset, limitKey)
            numeric == text # Unset /\ Trim(text.s) # <<>> /\ ~NumberOfText(text.s).nan
            N == NumberOfText(text.s).n
            L == Len(args.rows)
        IN  IF numeric /\ 0 < N /\ N < L
            THEN Len(ret.out) = N /\ ret.out = SubSeq(FullySorted, 1, N)
            ELSE IF numeric /\ N >= L THEN TRUE
            ELSE Len(ret.out) = L /\ ret.out = FullySorted

\* C4 amended: the limit is the whole number the attribute starts with
\* (parseInt); when that is N with 0 < N < L the result is the first N
\* records of the fully sorted (with no sort column, source-ordered)
\* sequence, and when the attribute is not set, empty, starts with no
\* digit, or starts with a number <= 0 or >= L, the result is all L records.
C4_Limit ==
    Called("applySortLimit") =>
        LET n == parseInt(OrElse(Attr(args.dataset, limitKey), Str(<<"0">>)).s)
            L == Len(args.rows)
        IN  /\ ~Truthy(Attr(args.dataset, sortColKey)) => FullySorted = args.rows
            /\ SameRecords(FullySorted, args.rows)
            /\ IF ~n.nan /\ 0 < n.n /\ n.n < L
               THEN Len(ret.out) = n.n /\ ret.out = SubSeq(FullySorted, 1, n.n)
               ELSE Len(ret.out) = L /\ ret.out = FullySorted

C4_Witness ==
    /\ Called("applySortLimit")
    /\ Attr(args.dataset, limitKey) = Str(<<"2", "a">>)
    /\ Truthy(Attr(args.dataset, sortColKey))
    /\ Len(args.rows) = 4
    /\ Len(ret.out) = 2
    /\ ret.out # SubSeq(args.rows, 1, 2)

\* C5: a call leaves the caller's sequence as it was, and returns another
\* sequence.
C5_InputUnchanged ==
    Called("applySortLimit") => (ret.rows = args.rows /\ ~ret.sameArray)

C5_Witness ==
    /\ Called("applySortLimit")
    /\ Truthy(Attr(args.dataset, sortColKey))
    /\ Attr(args.dataset, limitKey) = Unset
    /\ ret.out # args.rows
    /\ ret.rows = args.rows

(***************************************************************************)
(* Properties of labelTeamSeason and ensureRequired                        *)
(***************************************************************************)
IsPrefix(p, s) == Len(p) <= Len(s) /\ SubSeq(s, 1, Len(p)) = p

Contains(s, part) ==
    \E i \in 1..(Len(s) - Len(part) + 1) : SubSeq(s, i, i + Len(part) - 1) = part

\* C6: the label is "{primary} ({qualifier})" when a qualifier column is
\* configured and its value is present and non-empty, and "{primary}"
\* otherwise; an absent or null primary is empty text, never the word "null"
\* or "undefined".
C6_Label ==
    Called("labelTeamSeason") =>
        LET team == Get(args.row, args.labelCol.s)
            configured == args.seasonCol.t = "string" /\ args.seasonCol.s # <<>>
            qualifier == IF configured THEN Get(args.row, args.seasonCol.s) ELSE Undef
            noPrimary == team.t \in {"undefined", "null"}
            primary == IF noPrimary THEN <<>> ELSE ToText(team)
        IN  /\ ret.label =
                   IF configured /\ ~AbsentValue(qualifier)
                   THEN primary \o <<" ", "(">> \o ToText(qualifier) \o <<")">>
                   ELSE primary
            /\ noPrimary =>
                   /\ ~IsPrefix(<<"n", "u", "l", "l">>, ret.label)
                   /\ ~IsPrefix(<<"u", "n", "d", "e", "f", "i", "n", "e", "d">>, ret.label)

C6_Witness ==
    /\ Called("labelTeamSeason")
    /\ Get(args.row, LabelColumn) = Null
    /\ args.seasonCol = Str(SeasonColumn)
    /\ Get(args.row, SeasonColumn) = Num(9)
    /\ ret.label = <<" ", "(", "9", ")">>

\* An attribute that is missing, empty or only blanks.
BlankAttr(v) == v.t = "undefined" \/ (v.t = "string" /\ \A i \in 1..Len(v.s) : v.s[i] = " ")

\* C7: when required keys are missing, empty or blank the check fails with an
\* error whose message names every one of them (and no other key); when none
\* is missing it raises nothing.
C7_AllMissingNamed ==
    Called("ensureRequired") =>
        LET required == {args.keys[i] : i \in 1..Len(args.keys)}
            missing == {k \in required : BlankAttr(Attr(args.dataset, k))}
        IN  IF missing = {} THEN ret.error = NoError
            ELSE /\ ret.error.name = "Error"
                 /\ \A k \in missing : Contains(ret.error.detail, AttributeName(k))
                 /\ \A k \in required \ missing : ~Contains(ret.error.detail, AttributeName(k))

C7_Witness ==
    /\ Called("ensureRequired")
    /\ args.keys = <<csvKey, labelColKey, yColKey>>
    /\ Attr(args.dataset, csvKey) = Str(<<"a">>)
    /\ Attr(args.dataset, labelColKey) = Str(<<" ">>)
    /\ Attr(args.dataset, yColKey) = Unset
    /\ ret.error.detail = AttributeName(labelColKey) \o <<",", " ">> \o AttributeName(yColKey)

(***************************************************************************)
(* Properties of loadCsv                                                   *)
(***************************************************************************)
NoUrl(url) == url.t = "undefined" \/ url.t = "null" \/ (url.t = "string" /\ url.s = <<>>)

SuccessStatus(status) == status \in 200..299

NothingLoaded == ret.rows = <<>> /\ ret.parses = 0

\* C8: loadCsv called with an absent or empty URL is rejected with an error
\* and issues no fetch; a response whose status is not a success status
\* rejects it with an error whose message holds the URL and the status code;
\* in both cases nothing is parsed and no records are returned.
C8_LoadErrors ==
    args.fn = "loadCsv" =>
        /\ (NoUrl(args.url) /\ ret.at # "start") =>
               /\ ret.at = "rejected"
               /\ ret.error.name = "Error"
               /\ ret.fetches = <<>>
               /\ NothingLoaded
        /\ (ret.status # 0 /\ ~SuccessStatus(ret.status)) =>
               /\ ret.at = "rejected"
               /\ ret.error.name = "Error"
               /\ ret.fetches = <<args.url>>
               /\ Contains(ret.error.detail, ToText(args.url))
               /\ Contains(ret.error.detail, NumberText(ret.status))
               /\ NothingLoaded

C8_Witness ==
    /\ Called("loadCsv")
    /\ args.url = Str(<<"a">>)
    /\ ret.status = 404
    /\ ret.at = "rejected"
    /\ ret.error.detail = <<"a", " ", "(", "4", "0", "4", ")">>

(***************************************************************************)
(* Properties of the page                                                  *)
(***************************************************************************)
Launched == \E t \in Targets : tasks[t].at # "idle"

\* Every required attribute of target t is set and not blank.
Configured(t) ==
    \A i \in 1..Len(RequiredKeys(canvases[t].kind)) :
        LET v == Attr(canvases[t].dataset, RequiredKeys(canvases[t].kind)[i])
        IN  v.t = "string" /\ Trim(v.s) # <<>>

Drawable(t) == canvases[t].context = "2d"

LogOf(t) == SelectSeq(log, LAMBDA e : e.target = t)

\* What the console holds is, for each failed target, its error under its own
\* kind followed by its own dataset, and nothing for any other target.
LoggedAtOwnTarget ==
    \A t \in Targets :
        IF tasks[t].at = "failed"
        THEN /\ Len(LogOf(t)) = 2
             /\ LogOf(t)[1].text = canvases[t].kind \o " chart failed:"
             /\ LogOf(t)[1].value = tasks[t].error
             /\ LogOf(t)[2].text = "canvas dataset:"
             /\ LogOf(t)[2].value = canvases[t].dataset
        ELSE LogOf(t) = <<>>

\* Once the handler has run, a configured target has issued its fetch, and
\* one that is not has been rejected, whatever the other targets are.
EveryTargetLaunched ==
    Launched =>
        \A t \in Targets :
            IF Configured(t)
            THEN /\ net[t].fetches = <<Attr(canvases[t].dataset, csvKey)>>
                 /\ tasks[t].at \in {"fetching", "reading", "rejected", "failed", "done"}
            ELSE /\ net[t].fetches = <<>>
                 /\ tasks[t].at \in {"rejected", "failed"}

\* A target's fetch can complete or fail, and a rejected target's .catch
\* callback can run, whatever the other targets are; a target that is done
\* has made its render call when it has a 2D context.
NoTargetWaitsForAnother ==
    \A t \in Targets :
        /\ tasks[t].at = "fetching" => (ENABLED Response(t) /\ ENABLED NetworkError(t))
        /\ tasks[t].at = "rejected" => ENABLED Catch(t)
        /\ tasks[t].at = "done" => (Drawable(t) => Len(charts[t]) = 1)

\* Once the handler has run, a step belongs to one target: it leaves the
\* task, the fetch and the chart of every other target as they were, and
\* what it logs is about its own target.
OneTargetPerStep ==
    Launched =>
        \E t \in Targets :
            /\ \A u \in Targets \ {t} :
                   tasks'[u] = tasks[u] /\ net'[u] = net[u] /\ charts'[u] = charts[u]
            /\ \A i \in (Len(log) + 1)..Len(log') : log'[i].target = t
            /\ tasks[t].at = "reading" => (tasks'[t].at = "done" /\ Len(charts'[t]) <= 1)

\* C9: a configuration error, a failed fetch or a fetch that never completes
\* in one target is logged at that target only and keeps no other target
\* from fetching and, when its own fetch succeeds, from rendering, in every
\* interleaving of the fetch completions.
C9_Isolated ==
    /\ [](LoggedAtOwnTarget /\ EveryTargetLaunched /\ NoTargetWaitsForAnother)
    /\ [][OneTargetPerStep]_vars

\* The first target launched fails on its configuration, and the other one
\* has rendered.
C9_Witness ==
    \E t \in Targets, u \in Targets :
        /\ t # u
        /\ LaunchOrder = <<t, u>>
        /\ tasks[t].at = "failed"
        /\ ~Configured(t)
        /\ Len(charts[u]) = 1
        /\ Len(log) = 2

\* One target's fetch has not completed, and the other one has rendered.
C9_HungWitness ==
    \E t \in Targets, u \in Targets :
        /\ t # u
        /\ tasks[t].at = "fetching"
        /\ Len(charts[u]) = 1

\* C10: a target without a 2D context never gets a chart, and when its
\* records have loaded its builder ends without an error and nothing is
\* logged for it.
C10_NoContextNoChart ==
    \A t \in Targets :
        ~Drawable(t) =>
            /\ charts[t] = <<>>
            /\ tasks[t].at = "done" => (tasks[t].error = NoError /\ LogOf(t) = <<>>)
            /\ LogOf(t) # <<>> => (~Configured(t) \/ net[t].status = 404 \/ tasks[t].error = FetchFailed)

C10_Witness ==
    \E t \in Targets :
        /\ canvases[t].context = "null"
        /\ canvases[t].kind = "bar"
        /\ net[t].status = 200
        /\ tasks[t].at = "done"
        /\ charts[t] = <<>>
        /\ log = <<>>

(***************************************************************************)
(* Properties of the records the builders render                           *)
(***************************************************************************)
Rendered(t) == Len(charts[t]) = 1

\* The records loadCsv returned to target t's builder.
Loaded(t) == SelectSeq(net[t].data.items, LAMBDA r : DOMAIN r.cells # {})

\* The number of records left of n by the limit of target t's configuration.
PostLimitCount(t, n) ==
    LET limit == parseInt(OrElse(Attr(canvases[t].dataset, limitKey), Str(<<"0">>)).s)
    IN  IF ~limit.nan /\ limit.n > 0 /\ limit.n < n THEN limit.n ELSE n

\* The value sequences made of the records, one value per record.
PerRecordSeries(t) ==
    IF canvases[t].kind = "roc-curves"
    THEN SubSeq(charts[t][1].datasets, 1, Len(TprCols))
    ELSE charts[t][1].datasets

LabelsMatchValues(t) ==
    IF canvases[t].kind = "model-comparison"
    THEN /\ Len(charts[t][1].datasets) = Len(charts[t][1].records)
         /\ \A i \in 1..Len(charts[t][1].datasets) :
                Len(charts[t][1].datasets[i]) = Len(charts[t][1].labels)
    ELSE /\ canvases[t].kind # "roc-curves" => Len(charts[t][1].labels) = Len(charts[t][1].records)
         /\ \A i \in 1..Len(PerRecordSeries(t)) :
                Len(PerRecordSeries(t)[i]) = Len(charts[t][1].records)

\* C11: a rendered target was given as many records as its configured limit
\* leaves of the loaded ones, and its labels are as many as the values of
\* every sequence made of the same records.
C11_RecordCounts ==
    \A t \in Targets :
        Rendered(t) =>
            /\ Len(charts[t][1].records) = PostLimitCount(t, Len(Loaded(t)))
            /\ LabelsMatchValues(t)

\* The builders that call applySortLimit keep to the limit, and every
\* builder keeps labels and values the same length.
SortingBuildersKeepTheLimit ==
    \A t \in Targets :
        Rendered(t) =>
            /\ Sorts(canvases[t].kind) =>
                   Len(charts[t][1].records) = PostLimitCount(t, Len(Loaded(t)))
            /\ LabelsMatchValues(t)

(***************************************************************************)
(* Properties of a failed load                                             *)
(***************************************************************************)
\* The load of target t has failed: its fetch failed, or its response came
\* with a status that is not a success status.
LoadFailed(t) ==
    \/ tasks[t].error = FetchFailed
    \/ (net[t].status # 0 /\ net[t].status \notin 200..299)

Terminal(t) == tasks[t].at \in {"rejected", "failed"}

\* A target has fetched once at most, and one whose load has failed is
\* rejected with nothing rendered; its rejection can be caught, and when it
\* has been, the console holds the failure.
FailedLoadIsTerminal ==
    \A t \in Targets :
        /\ Len(net[t].fetches) <= 1
        /\ LoadFailed(t) =>
               /\ Terminal(t)
               /\ Len(net[t].fetches) = 1
               /\ charts[t] = <<>>
               /\ tasks[t].at = "rejected" => ENABLED Catch(t)
               /\ tasks[t].at = "failed" =>
                      (Len(LogOf(t)) = 2 /\ LogOf(t)[1].value = tasks[t].error)

\* No step takes a target whose load has failed back to fetching or on to
\* rendering.
FailedLoadStaysFailed ==
    \A t \in Targets :
        LoadFailed(t) =>
            /\ tasks'[t].at \in {"rejected", "failed"}
            /\ tasks'[t].error = tasks[t].error
            /\ net'[t] = net[t]
            /\ charts'[t] = <<>>

\* C12: a target fetches at most once; after a failed load it is reported
\* and stays failed: it does not fetch again and it does not render.
C12_NoRetry == []FailedLoadIsTerminal /\ [][FailedLoadStaysFailed]_vars

C12_Witness ==
    \E t \in Targets :
        /\ net[t].status = 404
        /\ net[t].fetches = <<Str(<<"a">>)>>
        /\ tasks[t].at = "failed"
        /\ Len(LogOf(t)) = 2
        /\ charts[t] = <<>>

(***************************************************************************)
(* Properties of a target with incomplete configuration                    *)
(***************************************************************************)
\* Some required attribute of target t is not set, empty or blank.
Unconfigured(t) ==
    \E i \in 1..Len(RequiredKeys(canvases[t].kind)) :
        LET v == Attr(canvases[t].dataset, RequiredKeys(canvases[t].kind)[i])
        IN  v.t = "undefined" \/ Trim(v.s) = <<>>

ConfigurationError(e) ==
    e.name = "Error" /\ e.literal = "Canvas is missing required data-* attributes: "

\* C13: a target with a required attribute missing or empty never issues a
\* fetch, never receives a response and never renders; once the handler has
\* run it is rejected with the configuration error, and that error is all
\* the console ever holds for it.
C13_ValidatedFirst ==
    \A t \in Targets :
        Unconfigured(t) =>
            /\ net[t] = [fetches |-> <<>>, status |-> 0, data |-> NotAnArray]
            /\ charts[t] = <<>>
            /\ Launched => (Terminal(t) /\ ConfigurationError(tasks[t].error))
            /\ Len(LogOf(t)) <= 2
            /\ \A i \in 1..Len(LogOf(t)) :
                   IF LogOf(t)[i].text = "canvas dataset:"
                   THEN LogOf(t)[i].value = canvases[t].dataset
                   ELSE LogOf(t)[i].value = tasks[t].error

C13_Witness ==
    \E t \in Targets :
        /\ canvases[t].kind = "bar"
        /\ Attr(canvases[t].dataset, csvKey) = Str(<<"a">>)
        /\ Attr(canvases[t].dataset, labelColKey) = Unset
        /\ Attr(canvases[t].dataset, yColKey) = Str(<<>>)
        /\ tasks[t].at = "failed"
        /\ tasks[t].error.detail = AttributeName(labelColKey) \o <<",", " ">> \o AttributeName(yColKey)
        /\ net[t].fetches = <<>>
        /\ Len(LogOf(t)) = 2

(***************************************************************************)
(* Calls of applySortLimit with every spelling of the direction            *)
(***************************************************************************)
\* The sortDir attribute: not set, empty, the two directions, other
\* spellings of asc, and text that is neither.
DirTexts ==
    {Unset, Str(<<>>), Str(<<"d", "e", "s", "c">>), Str(<<"a", "s", "c">>),
     Str(<<"A", "S", "C">>), Str(<<"A", "s", "c">>), Str(<<"x">>), Str(<<"a", "s", "c", " ">>)}

DirValues == {Null, Num(9), Num(10), Str(<<"1", "a">>)}

DirDatasets == {SortDataset(Str(SortColumn), dir, Unset) : dir \in DirTexts}

InitDir ==
    /\ args \in [fn : {"applySortLimit"}, rows : RowSeqs(DirValues, MaxLen),
                  dataset : DirDatasets, engine : Engines]
    /\ ret = NotCalled
    /\ PageIdle

SpecDir == InitDir /\ [][NextSort]_vars

\* The spellings of asc, whatever the case of the letters.
SpelledAsc(dir) ==
    /\ dir.t = "string"
    /\ Len(dir.s) = 3
    /\ dir.s[1] \in {"a", "A"} /\ dir.s[2] \in {"s", "S"} /\ dir.s[3] \in {"c", "C"}

\* What the call would return with the direction given as dir.
OutputWith(dir) ==
    applySortLimit(args.rows, [args.dataset EXCEPT ![sortDirKey] = Str(dir)], args.engine).out

\* C14: with sortDir spelled asc in any case the output is that of "asc";
\* with sortDir not set, empty or any other text it is that of "desc", and
\* on a numeric column it is in non-increasing order.
C14_DescendingUnlessAsc ==
    Called("applySortLimit") =>
        IF SpelledAsc(Attr(args.dataset, sortDirKey))
        THEN ret.out = OutputWith(<<"a", "s", "c">>)
        ELSE /\ ret.out = OutputWith(<<"d", "e", "s", "c">>)
             /\ NumericColumn(args.rows) =>
                    \A i \in 1..(Len(PresentRows(ret.out)) - 1) :
                        SortCell(PresentRows(ret.out)[i]).n
                            >= SortCell(PresentRows(ret.out)[i + 1]).n

\* An unrecognized direction on a column of numbers out of order.
C14_Witness ==
    /\ Called("applySortLimit")
    /\ Attr(args.dataset, sortDirKey) = Str(<<"x">>)
    /\ Len(args.rows) = 3
    /\ SortCell(args.rows[1]) = Num(9)
    /\ SortCell(args.rows[2]) = Num(10)
    /\ SortCell(args.rows[3]) = Num(9)
    /\ ret.out = <<args.rows[2], args.rows[1], args.rows[3]>>
    /\ ret.out # OutputWith(<<"a", "s", "c">>)

(***************************************************************************)
(* Properties of the comparator                                            *)
(***************************************************************************)
\* The comparator of the call, on two of its records.
Cmp(a, b) == Compare(a, b, Attr(args.dataset, sortColKey).s, toLowerCase(Attr(args.dataset, sortDirKey).s))

Sign(n) == IF n < 0 THEN -1 ELSE IF n > 0 THEN 1 ELSE 0

\* Two sort values that are the same value, or both absent or empty.
EqualOrBothAbsent(v, w) == v = w \/ (AbsentValue(v) /\ AbsentValue(w))

\* C15: two records whose sort values are equal, or both absent (missing
\* key, null or empty text), compare as equal, and keep their input order in
\* the output.
C15_EqualValuesCompareEqual ==
    (Called("applySortLimit") /\ Truthy(Attr(args.dataset, sortColKey))) =>
        /\ \A i, j \in 1..Len(args.rows) :
               EqualOrBothAbsent(SortCell(args.rows[i]), SortCell(args.rows[j]))
                   => Cmp(args.rows[i], args.rows[j]) = 0
        /\ \A i, j \in 1..Len(ret.out) :
               (i < j /\ EqualOrBothAbsent(SortCell(ret.out[i]), SortCell(ret.out[j])))
                   => ret.out[i].id < ret.out[j].id

\* C16: the comparator is a consistent ordering of the records of the call:
\* cmp(a, b) and cmp(b, a) have opposite signs, cmp(a, b) <= 0 and
\* cmp(b, c) <= 0 give cmp(a, c) <= 0, and every sort algorithm returns the
\* same output.
C16_ConsistentComparator ==
    (Called("applySortLimit") /\ Truthy(Attr(args.dataset, sortColKey))) =>
        LET R == {args.rows[i] : i \in 1..Len(args.rows)} IN
        /\ \A a, b \in R : Sign(Cmp(a, b)) = 0 - Sign(Cmp(b, a))
        /\ \A a, b, c \in R : (Cmp(a, b) <= 0 /\ Cmp(b, c) <= 0) => Cmp(a, c) <= 0
        /\ \A e \in Engines : applySortLimit(args.rows, args.dataset, e).out = ret.out

====
